---- MODULE Spec2Model ----
(***************************************************************************)
(* The built-in set and frozenset of collections/set.py, as the file       *)
(* documents them: names bound to set objects, the public method surface,  *)
(* the exceptions the transcripts show, and the aliasing that plain        *)
(* assignment creates.                                                     *)
(*                                                                         *)
(* A name holds the object it is bound to, and `same` records which names   *)
(* are bound to one and the same object (n is m), so that an update made    *)
(* through one name is an update of the object every alias sees.           *)
(*                                                                         *)
(* A set object is a table of stored entries: a function from each stored  *)
(* value to the number of entries that hold it.  len() counts entries,     *)
(* membership is the domain.  That no value is stored twice is therefore   *)
(* something add() has to maintain, not something the representation       *)
(* grants.                                                                 *)
(***************************************************************************)
EXTENDS Integers, Sequences, FiniteSets

VARIABLES obj, same, op, ret, err, call, pre

vars == <<obj, same, op, ret, err, call, pre>>

\* the record of one statement: what it was called with, and the objects before it
hist == <<call, pre>>

(* ------------------------------ bounds -------------------------------- *)

\* integers 1..MaxInt are the element values the transcripts use
MaxInt == 2
\* longest list literal handed to an operation
MaxLen == 2
\* most arguments handed to a variadic (*others) operation
MaxArgs == 2

Names == {"x", "y"}
Ints == 1..MaxInt

(* ------------------------------ values -------------------------------- *)

\* a hashable value: an integer, or a frozenset of integers (compared by content)
IntVal(i) == [t |-> "int", i |-> i, s |-> {}]
FrozenVal(S) == [t |-> "frozenset", i |-> 0, s |-> S]

IntVals == {IntVal(i) : i \in Ints}
FrozenVals == {FrozenVal(S) : S \in SUBSET Ints}

\* argument expressions: an integer literal, a name, a list literal, or an
\* instance of a plain class (class A: pass), which is neither iterable nor a set
IntArg(i) == [tag |-> "int", i |-> i, name |-> "", items |-> <<>>]
NameArg(n) == [tag |-> "name", i |-> 0, name |-> n, items |-> <<>>]
ListArg(q) == [tag |-> "list", i |-> 0, name |-> "", items |-> q]
ObjectArg == [tag |-> "object", i |-> 0, name |-> "", items |-> <<>>]

Lists == UNION {[1..k -> Ints] : k \in 0..MaxLen}
IntArgs == {IntArg(i) : i \in Ints}
NameArgs == {NameArg(n) : n \in Names}
ListArgs == {ListArg(q) : q \in Lists}

(* ------------------------------ tables -------------------------------- *)

EmptyTbl == [v \in {} |-> 0]

Count(tbl, v) == IF v \in DOMAIN tbl THEN tbl[v] ELSE 0

\* one more entry holding v
Insert(tbl, v) ==
  [w \in DOMAIN tbl \cup {v} |-> Count(tbl, w) + (IF w = v THEN 1 ELSE 0)]

\* one entry holding v fewer
Delete(tbl, v) ==
  [w \in {u \in DOMAIN tbl : u # v \/ tbl[u] > 1} |->
      tbl[w] - (IF w = v THEN 1 ELSE 0)]

Restrict(tbl, S) == [w \in DOMAIN tbl \cap S |-> tbl[w]]

RECURSIVE Entries(_)
Entries(tbl) ==
  IF DOMAIN tbl = {} THEN 0
  ELSE LET v == CHOOSE w \in DOMAIN tbl : TRUE
       IN tbl[v] + Entries([w \in DOMAIN tbl \ {v} |-> tbl[w]])

\* len(x)
len(tbl) == Entries(tbl)

\* the values for which "v in x" is true
Members(tbl) == DOMAIN tbl

\* x == y: membership only
SetEq(a, b) == Members(a) = Members(b)

\* the entries of a table in some iteration order
RECURSIVE IterTbl(_)
IterTbl(tbl) ==
  IF DOMAIN tbl = {} THEN <<>>
  ELSE LET v == CHOOSE w \in DOMAIN tbl : TRUE
       IN <<v>> \o IterTbl(Delete(tbl, v))

(* ------------------------------ objects ------------------------------ *)

NewSet(kind, tbl) == [kind |-> kind, tbl |-> tbl]

\* n is m
Is(n, m) == m \in same[n]

Deref(n) == obj[n]
IsSet(n) == Deref(n).kind = "set"
IsFrozen(n) == Deref(n).kind = "frozenset"

RetNone == [kind |-> "None", b |-> FALSE, v |-> IntVal(0)]
RetBool(b) == [kind |-> "bool", b |-> b, v |-> IntVal(0)]
RetVal(v) == [kind |-> "value", b |-> FALSE, v |-> v]

\* n = <new object>: n leaves its aliases and is the only name of the new object
Bind(n, o, opname) ==
  /\ obj' = [obj EXCEPT ![n] = o]
  /\ same' = [k \in Names |-> IF k = n THEN {n} ELSE same[k] \ {n}]
  /\ op' = opname
  /\ ret' = RetNone
  /\ err' = "none"

\* the call raised: nothing is bound, nothing is stored
Raise(exc, opname) ==
  /\ err' = exc
  /\ op' = opname
  /\ ret' = RetNone
  /\ UNCHANGED <<obj, same>>

\* the object n names is updated in place: every name of it sees the update
Store(n, tbl, opname, r, exc) ==
  /\ obj' = [k \in Names |-> IF Is(n, k) THEN [obj[k] EXCEPT !.tbl = tbl] ELSE obj[k]]
  /\ op' = opname
  /\ ret' = r
  /\ err' = exc
  /\ UNCHANGED same

\* a read-only call returned r
Return(r, opname) ==
  /\ op' = opname
  /\ ret' = r
  /\ err' = "none"
  /\ UNCHANGED <<obj, same>>

(* ---------------------------- iteration ------------------------------- *)

\* implements the iterator protocol
Iterable(a) == a.tag \in {"name", "list"}

RECURSIVE MapInt(_)
MapInt(q) == IF q = <<>> THEN <<>> ELSE <<IntVal(Head(q))>> \o MapInt(Tail(q))

\* the values iterating a yields, in order
Iter(a) == IF a.tag = "name" THEN IterTbl(Deref(a.name).tbl) ELSE MapInt(a.items)

Range(q) == {q[k] : k \in 1..Len(q)}

(* --------------------------- add / construct --------------------------- *)

\* add() that stores without looking
add_always(tbl, v) == Insert(tbl, v)

\* set add(elem): if the element already exists, nothing happens
add(tbl, v) == IF v \in Members(tbl) THEN tbl ELSE Insert(tbl, v)

\* add every value of a sequence
RECURSIVE add_all(_, _)
add_all(tbl, q) == IF q = <<>> THEN tbl ELSE add_all(add(tbl, Head(q)), Tail(q))

\* set(iterable) / frozenset(iterable)
set_of(q) == add_all(EmptyTbl, q)

\* no statement is on record
NoCall == [target |-> "", self |-> "", args |-> <<>>]

\* the statement target = self.method(*args), or self.method(*args)
Called(t, n, args) == [target |-> t, self |-> n, args |-> args]

\* the objects as they are
Now == [obj |-> obj, same |-> same]

Init ==
  /\ obj = [n \in Names |-> NewSet("set", EmptyTbl)]
  /\ same = [n \in Names |-> {n}]
  /\ op = "init"
  /\ ret = RetNone
  /\ err = "none"
  /\ call = NoCall
  /\ pre = Now

\* n = set(a)  /  n = frozenset(a)
Construct(n, kind, a) ==
  IF Iterable(a)
    THEN Bind(n, NewSet(kind, set_of(Iter(a))), "construct")
    ELSE Raise("TypeError", "construct")

\* n = m
Assign(n, m) ==
  /\ n # m
  /\ obj' = [obj EXCEPT ![n] = obj[m]]
  /\ same' = [k \in Names |-> IF k = n \/ Is(m, k) THEN same[m] \cup {n} ELSE same[k] \ {n}]
  /\ op' = "assign"
  /\ ret' = RetNone
  /\ err' = "none"

(* ------------------------- element operations -------------------------- *)

\* any name can be stored, whatever it holds
Hashable_by_name(a) == a.tag \in {"int", "name"}

\* what can be stored: an integer, or a frozenset (a set, a list, a plain
\* object holding mutable state are unhashable)
Hashable(a) == a.tag = "int" \/ (a.tag = "name" /\ IsFrozen(a.name))

\* the stored value of a hashable argument
ValueOf(a) ==
  IF a.tag = "int" THEN IntVal(a.i)
  ELSE FrozenVal({v.i : v \in Members(Deref(a.name).tbl)})

\* n.add(a)
Add(n, a) ==
  /\ IsSet(n)
  /\ IF Hashable(a)
       THEN Store(n, add(Deref(n).tbl, ValueOf(a)), "add", RetNone, "none")
       ELSE Raise("TypeError", "add")

\* set discard(elem): no KeyError if the elem is not present
discard(tbl, v) == IF v \in Members(tbl) THEN Delete(tbl, v) ELSE tbl

\* n.discard(v)
Discard(n, v) ==
  /\ IsSet(n)
  /\ Store(n, discard(Deref(n).tbl, v), "discard", RetNone, "none")

\* remove() that never raises, like discard()
remove_raises_never(tbl, v) == FALSE

\* set remove(elem): KeyError if elem does not exist within the set
remove_raises(tbl, v) == v \notin Members(tbl)

\* n.remove(v)
Remove(n, v) ==
  /\ IsSet(n)
  /\ IF remove_raises(Deref(n).tbl, v)
       THEN Raise("KeyError", "remove")
       ELSE Store(n, Delete(Deref(n).tbl, v), "remove", RetNone, "none")

\* pop() that already raises on the last element
pop_raises_early(tbl) == len(tbl) <= 1

\* set pop(): KeyError if the set is empty
pop_raises(tbl) == len(tbl) = 0

\* the elements pop() may hand out: any stored one, no order is kept
pop_choices(tbl) == Members(tbl)

\* n.pop()
Pop(n) ==
  /\ IsSet(n)
  /\ IF pop_raises(Deref(n).tbl)
       THEN Raise("KeyError", "pop")
       ELSE \E v \in pop_choices(Deref(n).tbl) :
              Store(n, Delete(Deref(n).tbl, v), "pop", RetVal(v), "none")

\* set clear(): remove all elements
clear(tbl) == EmptyTbl

\* n.clear()
Clear(n) ==
  /\ IsSet(n)
  /\ Store(n, clear(Deref(n).tbl), "clear", RetNone, "none")

\* set copy(): a new set object with the same elements
copy(o) == NewSet(o.kind, set_of(IterTbl(o.tbl)))

\* copy() that hands back the object itself
copy_by_reference(n, m) ==
  /\ obj' = [obj EXCEPT ![n] = obj[m]]
  /\ same' = [k \in Names |-> IF k = n \/ Is(m, k) THEN same[m] \cup {n} ELSE same[k] \ {n}]
  /\ op' = "copy"
  /\ ret' = RetNone
  /\ err' = "none"

\* n = m.copy()
Copy(n, m) == Bind(n, copy(Deref(m)), "copy")

(* ----------------------------- set algebra ---------------------------- *)

\* a set as a sequence, in some order
RECURSIVE SeqOf(_)
SeqOf(S) ==
  IF S = {} THEN <<>>
  ELSE LET v == CHOOSE w \in S : TRUE IN <<v>> \o SeqOf(S \ {v})

\* the distinct values iterating argument a yields
ArgMembers(a) == Range(Iter(a))

\* the member sets of a tuple of arguments
OthersOf(args) == [k \in 1..Len(args) |-> ArgMembers(args[k])]

\* the tuples of *others: names of sets, optionally also plain objects
OthersArgs(A) == UNION {[1..k -> A] : k \in 0..MaxArgs}

\* difference() that looks at its first argument only
difference_first_only(tbl, others) ==
  Restrict(tbl, {v \in Members(tbl) : others = <<>> \/ v \notin others[1]})

\* set difference(*others): the items of x which do not appear in others
difference(tbl, others) ==
  Restrict(tbl, {v \in Members(tbl) : \A k \in 1..Len(others) : v \notin others[k]})

\* set intersection(*others): the elements in x and in all of others
intersection(tbl, others) ==
  Restrict(tbl, {v \in Members(tbl) : \A k \in 1..Len(others) : v \in others[k]})

\* symmetric_difference() that keeps the shared elements
symmetric_difference_keeps_shared(tbl, other) == add_all(tbl, SeqOf(other))

\* set symmetric_difference(other): the elements in either x or y but not in both
symmetric_difference(tbl, other) ==
  add_all(Restrict(tbl, Members(tbl) \ other), SeqOf(other \ Members(tbl)))

\* set union(*others): all items from x and every other
RECURSIVE union(_, _)
union(tbl, others) ==
  IF others = <<>> THEN tbl
  ELSE union(add_all(tbl, SeqOf(Head(others))), Tail(others))

\* t = n.difference(*args)
Difference(t, n, args) ==
  Bind(t, NewSet(Deref(n).kind, difference(Deref(n).tbl, OthersOf(args))), "difference")

\* t = n.intersection(*args)
Intersection(t, n, args) ==
  Bind(t, NewSet(Deref(n).kind, intersection(Deref(n).tbl, OthersOf(args))), "intersection")

\* t = n.symmetric_difference(a)
SymmetricDifference(t, n, a) ==
  Bind(t, NewSet(Deref(n).kind, symmetric_difference(Deref(n).tbl, ArgMembers(a))),
       "symmetric_difference")

\* t = n.union(*args)
Union(t, n, args) ==
  Bind(t, NewSet(Deref(n).kind, union(set_of(IterTbl(Deref(n).tbl)), OthersOf(args))), "union")

(* ------------------------- in-place set algebra ------------------------ *)

\* what iterating argument a yields while the object named self holds tbl: an
\* argument that is that very object is read as it stands now
ArgIter(a, tbl, self) ==
  IF a.tag = "name" /\ Is(self, a.name) THEN IterTbl(tbl) ELSE Iter(a)

RECURSIVE discard_all(_, _)
discard_all(tbl, q) ==
  IF q = <<>> THEN tbl ELSE discard_all(discard(tbl, Head(q)), Tail(q))

\* set difference_update(*others): update x to remove the items in others
RECURSIVE difference_update(_, _, _)
difference_update(tbl, self, args) ==
  IF args = <<>> THEN tbl
  ELSE difference_update(discard_all(tbl, ArgIter(Head(args), tbl, self)), self, Tail(args))

\* set intersection_update(*others): keep only the elements found in x and in
\* all of others
RECURSIVE intersection_update(_, _, _)
intersection_update(tbl, self, args) ==
  IF args = <<>> THEN tbl
  ELSE intersection_update(Restrict(tbl, Range(ArgIter(Head(args), tbl, self))), self, Tail(args))

RECURSIVE toggle_all(_, _)
toggle_all(tbl, q) ==
  IF q = <<>> THEN tbl
  ELSE toggle_all(IF Head(q) \in Members(tbl) THEN Delete(tbl, Head(q))
                  ELSE Insert(tbl, Head(q)), Tail(q))

\* symmetric_difference_update() that keeps the shared elements
sdu_keeps_shared(tbl, self, a) == add_all(tbl, ArgIter(a, tbl, self))

\* set symmetric_difference_update(other): the shared elements leave x, the
\* elements of other which are not in x enter it
symmetric_difference_update(tbl, self, a) ==
  toggle_all(tbl, SeqOf(Range(ArgIter(a, tbl, self))))

\* the elements of each iterable are added, one iterable after the other, up
\* to the first argument that is not iterable
RECURSIVE add_others(_, _, _)
add_others(tbl, self, args) ==
  IF args = <<>> \/ ~Iterable(Head(args)) THEN tbl
  ELSE add_others(add_all(tbl, ArgIter(Head(args), tbl, self)), self, Tail(args))

\* update() that looks at all its arguments before it adds anything
update_checks_first(tbl, self, args) ==
  IF \E k \in 1..Len(args) : ~Iterable(args[k])
    THEN [tbl |-> tbl, exc |-> "TypeError"]
    ELSE [tbl |-> add_others(tbl, self, args), exc |-> "none"]

\* set update(*others): add all elements of each iterable into the set; an
\* argument that is not iterable raises TypeError when its turn comes
update(tbl, self, args) ==
  [tbl |-> add_others(tbl, self, args),
   exc |-> IF \E k \in 1..Len(args) : ~Iterable(args[k]) THEN "TypeError" ELSE "none"]

\* n.difference_update(*args)
DifferenceUpdate(n, args) ==
  /\ IsSet(n)
  /\ Store(n, difference_update(Deref(n).tbl, n, args), "difference_update", RetNone, "none")

\* n.intersection_update(*args)
IntersectionUpdate(n, args) ==
  /\ IsSet(n)
  /\ Store(n, intersection_update(Deref(n).tbl, n, args), "intersection_update", RetNone, "none")

\* n.symmetric_difference_update(a)
SymmetricDifferenceUpdate(n, a) ==
  /\ IsSet(n)
  /\ Store(n, symmetric_difference_update(Deref(n).tbl, n, a),
           "symmetric_difference_update", RetNone, "none")

\* n.update(*args)
Update(n, args) ==
  /\ IsSet(n)
  /\ LET r == update(Deref(n).tbl, n, args)
     IN Store(n, r.tbl, "update", RetNone, r.exc)

\* n -= m that updates n in place whatever n is
isub_in_place(n, m) ==
  Store(n, difference_update(Deref(n).tbl, n, <<NameArg(m)>>), "isub", RetNone, "none")

\* n -= m: a set has __isub__ and is updated in place; a frozenset has not, so
\* the statement falls back to n = n - m and binds n to a new frozenset
AugSub(n, m) ==
  IF IsSet(n)
    THEN Store(n, difference_update(Deref(n).tbl, n, <<NameArg(m)>>), "isub", RetNone, "none")
    ELSE Bind(n, NewSet("frozenset", difference(Deref(n).tbl, OthersOf(<<NameArg(m)>>))), "isub")

(* ------------------------------ predicates ----------------------------- *)

\* isdisjoint() that looks at the first element of other only
isdisjoint_first_only(tbl, q) == q = <<>> \/ q[1] \notin Members(tbl)

\* set isdisjoint(other): x has no elements in common with other
isdisjoint(tbl, q) == \A k \in 1..Len(q) : q[k] \notin Members(tbl)

\* n.isdisjoint(a)
IsDisjoint(n, a) ==
  IF Iterable(a)
    THEN Return(RetBool(isdisjoint(Deref(n).tbl, Iter(a))), "isdisjoint")
    ELSE Raise("TypeError", "isdisjoint")

\* set issubset(other): all elements of x are in other
issubset(tbl, q) == \A v \in Members(tbl) : \E k \in 1..Len(q) : q[k] = v

\* set issuperset(other): every element in other is in x
issuperset(tbl, q) == \A k \in 1..Len(q) : q[k] \in Members(tbl)

\* x <= y: every element in x is in y
le(a, b) == issubset(a, IterTbl(b))

\* x < y that does not look for x != y
lt_without_ne(a, b) == le(a, b)

\* x < y: every element of x is in y and x != y
lt(a, b) == le(a, b) /\ ~SetEq(a, b)

\* x >= y: all elements in y are in x
ge(a, b) == issuperset(a, IterTbl(b))

\* x > y: x != y and x >= y
gt(a, b) == ~SetEq(a, b) /\ ge(a, b)

\* n.issubset(a)
IsSubset(n, a) == Return(RetBool(issubset(Deref(n).tbl, Iter(a))), "issubset")

\* n.issuperset(a)
IsSuperset(n, a) == Return(RetBool(issuperset(Deref(n).tbl, Iter(a))), "issuperset")

\* n <= m
Le(n, m) == Return(RetBool(le(Deref(n).tbl, Deref(m).tbl)), "le")

\* n < m
Lt(n, m) == Return(RetBool(lt(Deref(n).tbl, Deref(m).tbl)), "lt")

\* n >= m
Ge(n, m) == Return(RetBool(ge(Deref(n).tbl, Deref(m).tbl)), "ge")

\* n > m
Gt(n, m) == Return(RetBool(gt(Deref(n).tbl, Deref(m).tbl)), "gt")

(* ------------------------------ the program --------------------------- *)

Kinds == {"set", "frozenset"}

\* arguments of add() that keep the elements of Spec to integers
FlatArgs == IntArgs \cup {a \in NameArgs : IsSet(a.name)}

\* any sequence of statements; no statement is put on record
Next ==
  \/ \E n \in Names, k \in Kinds, a \in NameArgs \cup ListArgs \cup {ObjectArg} :
        Construct(n, k, a) /\ UNCHANGED hist
  \/ \E n, m \in Names : Assign(n, m) /\ UNCHANGED hist
  \/ \E n \in Names, a \in FlatArgs : Add(n, a) /\ UNCHANGED hist
  \/ \E n \in Names, v \in IntVals : Discard(n, v) /\ UNCHANGED hist
  \/ \E n \in Names, v \in IntVals : Remove(n, v) /\ UNCHANGED hist
  \/ \E n \in Names : Pop(n) /\ UNCHANGED hist
  \/ \E n \in Names : Clear(n) /\ UNCHANGED hist
  \/ \E n, m \in Names : Copy(n, m) /\ UNCHANGED hist
  \/ \E t, n \in Names, args \in OthersArgs(NameArgs) : Difference(t, n, args) /\ UNCHANGED hist
  \/ \E t, n \in Names, args \in OthersArgs(NameArgs) : Intersection(t, n, args) /\ UNCHANGED hist
  \/ \E t, n \in Names, a \in NameArgs : SymmetricDifference(t, n, a) /\ UNCHANGED hist
  \/ \E t, n \in Names, args \in OthersArgs(NameArgs) : Union(t, n, args) /\ UNCHANGED hist
  \/ \E n \in Names, args \in OthersArgs(NameArgs) : DifferenceUpdate(n, args) /\ UNCHANGED hist
  \/ \E n \in Names, args \in OthersArgs(NameArgs) : IntersectionUpdate(n, args) /\ UNCHANGED hist
  \/ \E n \in Names, a \in NameArgs : SymmetricDifferenceUpdate(n, a) /\ UNCHANGED hist
  \/ \E n \in Names, args \in OthersArgs(NameArgs \cup {ObjectArg}) :
        Update(n, args) /\ UNCHANGED hist
  \/ \E n, m \in Names : AugSub(n, m) /\ UNCHANGED hist
  \/ \E n \in Names, a \in NameArgs \cup ListArgs \cup {ObjectArg} :
        IsDisjoint(n, a) /\ UNCHANGED hist

Spec == Init /\ [][Next]_vars

\* the statements of the opening demonstration: y is built from a list as a set
\* or as a frozenset, x is asked to hold y or a list, and gives elements up again
NextHash ==
  \/ \E k \in Kinds, a \in ListArgs : Construct("y", k, a) /\ UNCHANGED hist
  \/ \E a \in {NameArg("y")} \cup ListArgs : Add("x", a) /\ UNCHANGED hist
  \/ \E v \in FrozenVals : Discard("x", v) /\ UNCHANGED hist

SpecHash == Init /\ [][NextHash]_vars

(* ------------------------- one statement on record --------------------- *)

\* a set object that holds each of its values once
TblOf(S) == [v \in S |-> 1]
SetObjs == {NewSet(k, TblOf(S)) : k \in Kinds, S \in SUBSET IntVals}

\* the states Spec can be in: the names are bound to sets and frozensets of
\* integers, two names of one object hold the same object
Sessions(o, sm) ==
  /\ \A n \in Names : n \in sm[n]
  /\ \A n \in Names : \A m \in sm[n] : sm[m] = sm[n] /\ o[m] = o[n]

InitCall ==
  /\ obj \in [Names -> SetObjs]
  /\ same \in [Names -> SUBSET Names]
  /\ Sessions(obj, same)
  /\ op = "init"
  /\ ret = RetNone
  /\ err = "none"
  /\ call = NoCall
  /\ pre = Now

\* the statement is put on record, with the objects as they were before it
Record(t, n, args) ==
  /\ op = "init"
  /\ call' = Called(t, n, args)
  /\ pre' = Now

\* one statement of the set algebra, run in any state Spec can be in
NextCall ==
  \/ \E t, n \in Names, args \in OthersArgs(NameArgs) :
        Record(t, n, args) /\ Difference(t, n, args)
  \/ \E t, n \in Names, args \in OthersArgs(NameArgs) :
        Record(t, n, args) /\ Intersection(t, n, args)
  \/ \E t, n \in Names, a \in NameArgs \cup ListArgs :
        Record(t, n, <<a>>) /\ SymmetricDifference(t, n, a)
  \/ \E t, n \in Names, args \in OthersArgs(NameArgs) :
        Record(t, n, args) /\ Union(t, n, args)
  \/ \E n \in Names, args \in OthersArgs(NameArgs) :
        Record("", n, args) /\ DifferenceUpdate(n, args)
  \/ \E n \in Names, args \in OthersArgs(NameArgs) :
        Record("", n, args) /\ IntersectionUpdate(n, args)
  \/ \E n \in Names, a \in NameArgs \cup ListArgs :
        Record("", n, <<a>>) /\ SymmetricDifferenceUpdate(n, a)
  \/ \E n \in Names, args \in OthersArgs(NameArgs \cup {ObjectArg}) :
        Record("", n, args) /\ Update(n, args)
  \/ \E n \in Names, a \in NameArgs \cup ListArgs \cup {ObjectArg} :
        Record("", n, <<a>>) /\ IsDisjoint(n, a)
  \/ \E n \in Names, a \in NameArgs \cup ListArgs :
        Record("", n, <<a>>) /\ IsSubset(n, a)
  \/ \E n \in Names, a \in NameArgs \cup ListArgs :
        Record("", n, <<a>>) /\ IsSuperset(n, a)
  \/ \E n, m \in Names : Record("", n, <<NameArg(m)>>) /\ Le(n, m)
  \/ \E n, m \in Names : Record("", n, <<NameArg(m)>>) /\ Lt(n, m)
  \/ \E n, m \in Names : Record("", n, <<NameArg(m)>>) /\ Ge(n, m)
  \/ \E n, m \in Names : Record("", n, <<NameArg(m)>>) /\ Gt(n, m)

SpecCall == InitCall /\ [][NextCall]_vars

(* ------------------------- remove, discard, pop ------------------------ *)

\* C1: remove(e) of an absent e raises KeyError (the spec's NotFoundError) and
\* leaves every set as it was; discard(e) of an absent e returns normally and
\* leaves every set as it was; for a present e both leave the set equal to
\* the previous set without e.
C1_RemoveDiscard ==
  [][op' \in {"remove", "discard"} => \A n \in Names, v \in IntVals :
       /\ Remove(n, v) =>
            IF v \in Members(obj[n].tbl)
              THEN /\ err' = "none"
                   /\ Members(obj'[n].tbl) = Members(obj[n].tbl) \ {v}
              ELSE /\ err' = "KeyError"
                   /\ obj' = obj
       /\ Discard(n, v) =>
            /\ err' = "none"
            /\ Members(obj'[n].tbl) = Members(obj[n].tbl) \ {v}
            /\ v \notin Members(obj[n].tbl) => obj' = obj]_vars

\* remove() of an absent element has raised on a set that holds elements
C1_Witness ==
  /\ op = "remove"
  /\ err = "KeyError"
  /\ \E n \in Names : IsSet(n) /\ Members(obj[n].tbl) # {} /\ Members(obj[n].tbl) # IntVals

\* C2: pop() on a non-empty set returns a value that was a member, and the
\* set is afterwards the previous set without it, one entry shorter; pop() on
\* an empty set raises KeyError (the spec's EmptyContainerError) and the set
\* stays empty.
C2_Pop ==
  [][op' = "pop" => \A n \in Names :
       Pop(n) =>
         IF Members(obj[n].tbl) = {}
           THEN /\ err' = "KeyError"
                /\ obj' = obj
                /\ Members(obj'[n].tbl) = {}
           ELSE /\ err' = "none"
                /\ ret'.kind = "value"
                /\ ret'.v \in Members(obj[n].tbl)
                /\ Members(obj'[n].tbl) = Members(obj[n].tbl) \ {ret'.v}
                /\ len(obj'[n].tbl) = len(obj[n].tbl) - 1]_vars

\* pop() has handed out an element of a set that still holds another one
C2_Witness ==
  /\ op = "pop"
  /\ err = "none"
  /\ ret.kind = "value"
  /\ \E n \in Names : IsSet(n) /\ Members(obj[n].tbl) # {} /\ ret.v \notin Members(obj[n].tbl)

(* ------------------------------ hashability --------------------------- *)

\* the integers a frozenset object holds
IntsOf(n) == {v.i : v \in Members(obj[n].tbl)}

\* C3: add() of an unhashable value (a set, a list) raises TypeError (the
\* spec's UnhashableElementError) and leaves every set as it was; add() of a
\* frozenset succeeds and makes the frozenset, by its content, a member.
C3_AddUnhashable ==
  [][op' = "add" => \A n \in {"x"}, a \in {NameArg("y")} \cup ListArgs :
       Add(n, a) =>
         IF a.tag = "name" /\ obj[a.name].kind = "frozenset"
           THEN /\ err' = "none"
                /\ Members(obj'[n].tbl) =
                     Members(obj[n].tbl) \cup {FrozenVal(IntsOf(a.name))}
                /\ \A k \in Names : ~Is(n, k) => obj'[k] = obj[k]
           ELSE /\ err' = "TypeError"
                /\ obj' = obj]_vars

\* add() has refused the set y while x holds the frozenset of the same content
C3_Witness ==
  /\ op = "add"
  /\ err = "TypeError"
  /\ IsSet("y")
  /\ IntsOf("y") # {}
  /\ FrozenVal(IntsOf("y")) \in Members(obj["x"].tbl)

(* -------------------------- arguments of update ------------------------ *)

\* the members of argument a before the statement on record
PreMembers(a) ==
  IF a.tag = "name" THEN Members(pre.obj[a.name].tbl) ELSE {IntVal(i) : i \in Range(a.items)}

NotIterableIn(args) == {k \in 1..Len(args) : ~Iterable(args[k])}

FirstNotIterable(args) ==
  CHOOSE k \in NotIterableIn(args) : \A j \in NotIterableIn(args) : k <= j

\* C4 as the spec states it: update(*others) with an argument that is not
\* iterable raises TypeError (the spec's NotIterableError) and leaves the set
\* as it was before the call.
C4_UpdateNotPartial ==
  (op = "update" /\ NotIterableIn(call.args) # {}) =>
    /\ err = "TypeError"
    /\ obj = pre.obj

\* C4 as the set behaves: update(*others) with an argument that is not iterable
\* raises TypeError after the iterables that precede that argument have been
\* added; the set is unchanged when no iterable precedes it, and no other
\* object changes.
C4_UpdateUpToFailure ==
  (op = "update" /\ NotIterableIn(call.args) # {}) =>
    /\ err = "TypeError"
    /\ Members(obj[call.self].tbl) =
         Members(pre.obj[call.self].tbl) \cup
           UNION {PreMembers(call.args[j]) : j \in 1..(FirstNotIterable(call.args) - 1)}
    /\ FirstNotIterable(call.args) = 1 => obj = pre.obj
    /\ \A k \in Names : k \notin pre.same[call.self] => obj[k] = pre.obj[k]

\* x.update(y, A()) has raised after x, which lacked elements of y, took them
C4_Witness ==
  /\ op = "update"
  /\ err = "TypeError"
  /\ call.self = "x"
  /\ call.args = <<NameArg("y"), ObjectArg>>
  /\ ~(Members(pre.obj["y"].tbl) \subseteq Members(pre.obj["x"].tbl))
  /\ Members(pre.obj["y"].tbl) \subseteq Members(obj["x"].tbl)

(* ------------------------------- copies -------------------------------- *)

\* C5: copy() gives a set equal to the original that is another object; a step
\* changes the object of one name and of its aliases only, so no update of the
\* copy shows in the original and none of the original in the copy; after a
\* plain assignment both names are one object, and an update through one name
\* is seen through the other.
C5_CopyIndependent ==
  [][/\ op' = "copy" => \A n, m \in Names :
          Copy(n, m) =>
            /\ SetEq(obj'[n].tbl, obj[m].tbl)
            /\ obj'[n].kind = obj[m].kind
            /\ n # m => m \notin same'[n]
     /\ \A n, m \in Names : ~Is(n, m) => (obj'[n] = obj[n] \/ obj'[m] = obj[m])
     /\ op' = "assign" => \A n, m \in Names : Assign(n, m) => m \in same'[n]
     /\ \A n, m \in Names : (Is(n, m) /\ m \in same'[n]) => obj'[n] = obj'[m]]_vars

\* y = x.copy() has run on a set that holds elements
C5_Witness ==
  /\ op = "copy"
  /\ ~Is("x", "y")
  /\ IsSet("x")
  /\ Members(obj["x"].tbl) # {}
  /\ obj["x"] = obj["y"]

(* ------------------------------ frozensets ----------------------------- *)

\* the statements that bind their target name
BindingOps ==
  {"construct", "assign", "copy", "difference", "intersection",
   "symmetric_difference", "union", "isub"}

\* C6: the object a name holds as a frozenset differs after a step only if the
\* step bound that name anew, and then every other name, the aliases that still
\* hold the frozenset as it was constructed among them, holds what it held; the
\* methods that update in place run on sets only; x -= y on a frozenset x binds
\* x to a new frozenset, the difference, and leaves every other name alone.
C6_FrozenFixed ==
  [][/\ \A k \in Names :
          (IsFrozen(k) /\ obj'[k] # obj[k]) =>
            /\ op' \in BindingOps
            /\ \A j \in Names \ {k} : obj'[j] = obj[j]
     /\ op' \notin BindingOps \cup {"isdisjoint"} =>
          \E n \in Names : IsSet(n) /\ \A k \in Names : ~Is(n, k) => obj'[k] = obj[k]
     /\ op' = "isub" => \A n, m \in Names :
          (AugSub(n, m) /\ IsFrozen(n)) =>
            /\ obj'[n].kind = "frozenset"
            /\ Members(obj'[n].tbl) = Members(obj[n].tbl) \ Members(obj[m].tbl)
            /\ same'[n] = {n}
            /\ \A k \in Names \ {n} : obj'[k] = obj[k]]_vars

\* x -= y has run on a frozenset x with the alias y: y holds what x held, x
\* holds the difference
C6_Witness ==
  /\ op = "isub"
  /\ IsFrozen("x")
  /\ IsFrozen("y")
  /\ ~Is("x", "y")
  /\ Members(obj["y"].tbl) # {}
  /\ Members(obj["x"].tbl) = {}

(* ------------------------- the in-place forms -------------------------- *)

PreOthers(args) == [k \in 1..Len(args) |-> PreMembers(args[k])]

PreSelf == pre.obj[call.self].tbl

\* self holds what the read-only counterpart gives on the objects as they were
UpdateMatchesReadOnly ==
  /\ op = "difference_update" =>
       /\ SetEq(obj[call.self].tbl, difference(PreSelf, PreOthers(call.args)))
       /\ Members(obj[call.self].tbl) = Members(PreSelf) \ UNION Range(PreOthers(call.args))
  /\ op = "intersection_update" =>
       /\ SetEq(obj[call.self].tbl, intersection(PreSelf, PreOthers(call.args)))
       /\ Members(obj[call.self].tbl) =
            {v \in Members(PreSelf) : \A S \in Range(PreOthers(call.args)) : v \in S}
  /\ op = "symmetric_difference_update" =>
       /\ SetEq(obj[call.self].tbl, symmetric_difference(PreSelf, PreMembers(call.args[1])))
       /\ Members(obj[call.self].tbl) =
            (Members(PreSelf) \ PreMembers(call.args[1])) \cup
            (PreMembers(call.args[1]) \ Members(PreSelf))
  /\ (op = "update" /\ NotIterableIn(call.args) = {}) =>
       /\ SetEq(obj[call.self].tbl, union(PreSelf, PreOthers(call.args)))
       /\ Members(obj[call.self].tbl) = Members(PreSelf) \cup UNION Range(PreOthers(call.args))

InPlaceOps ==
  {"difference_update", "intersection_update", "symmetric_difference_update", "update"}

\* C7 as the spec states it: each in-place form leaves self equal to the result
\* of its read-only counterpart on the objects as they were, and leaves every
\* argument unchanged.
C7_UpdatesAsReadOnly ==
  /\ UpdateMatchesReadOnly
  /\ (op \in InPlaceOps /\ NotIterableIn(call.args) = {}) =>
       \A k \in 1..Len(call.args) :
         call.args[k].tag = "name" => obj[call.args[k].name] = pre.obj[call.args[k].name]

\* C7 as the set behaves: each in-place form leaves self equal to the result of
\* its read-only counterpart on the objects as they were, and leaves unchanged
\* every argument that is another object than self.
C7_UpdatesAsReadOnlyOthers ==
  /\ UpdateMatchesReadOnly
  /\ (op \in InPlaceOps /\ NotIterableIn(call.args) = {}) =>
       \A k \in 1..Len(call.args) :
         (call.args[k].tag = "name" /\ call.args[k].name \notin pre.same[call.self]) =>
           obj[call.args[k].name] = pre.obj[call.args[k].name]

\* x.symmetric_difference_update(y) has run where x and y shared an element and
\* each held one the other lacked or x alone did
C7_Witness ==
  /\ op = "symmetric_difference_update"
  /\ call.self = "x"
  /\ call.args = <<NameArg("y")>>
  /\ ~Is("x", "y")
  /\ Members(pre.obj["x"].tbl) \cap Members(pre.obj["y"].tbl) # {}
  /\ Members(pre.obj["x"].tbl) \ Members(pre.obj["y"].tbl) # {}

(* ----------------------------- no duplicates --------------------------- *)

\* C8: a set holds no value twice, so len() is the number of distinct values
\* it holds; add() of a value the set holds gives the set as it is; a set built
\* from a list holds as many entries as the list has distinct values.
C8_NoDuplicates ==
  /\ \A n \in Names : len(obj[n].tbl) = Cardinality(Members(obj[n].tbl))
  /\ \A n \in Names : \A v \in Members(obj[n].tbl) : add(obj[n].tbl, v) = obj[n].tbl
  /\ \A q \in Lists :
       /\ len(set_of(MapInt(q))) = Cardinality(Range(q))
       /\ Members(set_of(MapInt(q))) = {IntVal(i) : i \in Range(q)}

\* add() has run on a set that holds every value there is: whatever add() is
\* asked to store next is there already
C8_Witness ==
  /\ op = "add"
  /\ err = "none"
  /\ \E n \in Names : IsSet(n) /\ Members(obj[n].tbl) = IntVals

(* ------------------------------ difference ----------------------------- *)

\* x.difference(a).difference(b)...
RECURSIVE ChainedDifference(_, _)
ChainedDifference(tbl, others) ==
  IF others = <<>> THEN tbl
  ELSE ChainedDifference(difference(tbl, <<Head(others)>>), Tail(others))

\* C9: difference(*others) gives exactly the elements of self that are in none
\* of the others, which is what taking the differences one after the other
\* gives; without arguments it gives a new set equal to self; self and the
\* arguments are left as they were.
C9_Difference ==
  op = "difference" =>
    /\ err = "none"
    /\ Members(obj[call.target].tbl) =
         Members(PreSelf) \ UNION Range(PreOthers(call.args))
    /\ SetEq(obj[call.target].tbl, ChainedDifference(PreSelf, PreOthers(call.args)))
    /\ obj[call.target].kind = pre.obj[call.self].kind
    /\ same[call.target] = {call.target}
    /\ call.args = <<>> => SetEq(obj[call.target].tbl, PreSelf)
    /\ \A k \in Names \ {call.target} : obj[k] = pre.obj[k]

\* y = x.difference(y, x) has run where y takes one part of x away and x the
\* rest
C9_Witness ==
  /\ op = "difference"
  /\ call = Called("y", "x", <<NameArg("y"), NameArg("x")>>)
  /\ Members(pre.obj["y"].tbl) # {}
  /\ Members(pre.obj["x"].tbl) \ Members(pre.obj["y"].tbl) # {}
  /\ Members(pre.obj["x"].tbl) \cap Members(pre.obj["y"].tbl) # {}
  /\ Members(obj["y"].tbl) = {}

(* --------------------------------- laws -------------------------------- *)

\* C10: for the sets a and b of any two names, and for the operands of a
\* symmetric_difference() call, a.difference(b).union(a.intersection(b)) equals
\* a, and a.symmetric_difference(b) equals
\* a.union(b).difference(a.intersection(b)).
Laws(a, B) ==
  /\ SetEq(union(difference(a, <<B>>), <<Members(intersection(a, <<B>>))>>), a)
  /\ SetEq(symmetric_difference(a, B),
           difference(union(a, <<B>>), <<Members(intersection(a, <<B>>))>>))

C10_Laws ==
  /\ \A n, m \in Names : Laws(obj[n].tbl, Members(obj[m].tbl))
  /\ op = "symmetric_difference" =>
       /\ Laws(PreSelf, PreMembers(call.args[1]))
       /\ SetEq(obj[call.target].tbl,
                difference(union(PreSelf, <<PreMembers(call.args[1])>>),
                           <<Members(intersection(PreSelf, <<PreMembers(call.args[1])>>))>>))

\* y = x.symmetric_difference(list) has run where x and the list shared an
\* element and each held one the other lacked
C10_Witness ==
  /\ op = "symmetric_difference"
  /\ call.self = "x"
  /\ call.target = "y"
  /\ call.args[1].tag = "list"
  /\ Members(PreSelf) \cap PreMembers(call.args[1]) # {}
  /\ Members(PreSelf) \ PreMembers(call.args[1]) # {}
  /\ Members(obj["y"].tbl) = Members(PreSelf) \ PreMembers(call.args[1])

(* ------------------------------- disjoint ------------------------------ *)

\* C11: a.isdisjoint(b), b a set or a list, answers True exactly when
\* a.intersection(b) is empty, so it answers True for every a when b is empty;
\* a and b are left as they were.
C11_IsDisjoint ==
  (op = "isdisjoint" /\ Iterable(call.args[1])) =>
    /\ err = "none"
    /\ ret = RetBool(Members(intersection(PreSelf, PreOthers(call.args))) = {})
    /\ PreMembers(call.args[1]) = {} => ret = RetBool(TRUE)
    /\ obj = pre.obj
    /\ same = pre.same

\* x.isdisjoint(list) has answered False for a list whose first element x
\* lacks and whose later element x holds
C11_Witness ==
  /\ op = "isdisjoint"
  /\ ret = RetBool(FALSE)
  /\ call.self = "x"
  /\ call.args[1].tag = "list"
  /\ Len(call.args[1].items) > 1
  /\ IntVal(call.args[1].items[1]) \notin Members(PreSelf)

(* ------------------------- subsets and supersets ----------------------- *)

OrderOps == {"issubset", "issuperset", "le", "lt", "ge", "gt"}

\* the elements of the argument on record, as it was
PreOther == PreMembers(call.args[1])

====
